---- MODULE Spec2Model ----
(***************************************************************************)
(* teeny-compiler-rs: lexer (src/lexer.rs), recursive-descent parser       *)
(* (src/parser.rs) and C emitter (src/emitter.rs).                         *)
(*                                                                         *)
(* Source text is a sequence of characters, each a one-character string    *)
(* (the NUL character is written "NUL").  Tokens, AST nodes and results    *)
(* are records tagged the way the Rust enums are.                          *)
(***************************************************************************)
EXTENDS Integers, Sequences, FiniteSets, TLC

VARIABLES pc, input, lex_out, parse_out, expr_out, output, err, stdout,
          token_iterator, stack, cursor_op, steps

\* the cursor of the parser and where its calls stand: token_iterator is the
\* Peekable<TokenIterator> of main, stack the frames of the parse functions
\* being executed (innermost first), cursor_op the cursor operation of the
\* last step and steps the number of steps taken
parser_vars == <<token_iterator, stack, cursor_op, steps>>

vars == <<pc, input, lex_out, parse_out, expr_out, output, err, stdout, parser_vars>>

(***************************************************************************)
(* Bounds of the model.                                                    *)
(***************************************************************************)
\* longest source text drawn from the whole character alphabet
MaxLen == 4
\* longest run of digits drawn for the Number token
MaxDigits == 10
\* longest token sequence handed to parse_expression
MaxExprToks == 5
\* most token groups (lexeme groups of a statement) in a program for parse
MaxFrags == 4
\* most top-level statements in a program handed to emit_program
MaxStmts == 3

\* i32::MAX, the largest value of Token::Number { value: i32 }
I32Max == 2147483647

(***************************************************************************)
(* Generic helpers.                                                        *)
(***************************************************************************)
RECURSIVE Concat(_)
\* the String built by pushing the characters of cs in order
Concat(cs) == IF cs = <<>> THEN "" ELSE Head(cs) \o Concat(Tail(cs))

(***************************************************************************)
(* Lexer: src/lexer.rs                                                     *)
(***************************************************************************)
NUL == "NUL"
Digits == {"0", "1", "2", "3", "4", "5", "6", "7", "8", "9"}
Letters == {"a", "b", "c", "d", "e", "f", "g", "h", "i", "j", "k", "l", "m",
            "n", "o", "p", "q", "r", "s", "t", "u", "v", "w", "x", "y", "z",
            "A", "B", "C", "D", "E", "F", "G", "H", "I", "J", "K", "L", "M",
            "N", "O", "P", "Q", "R", "S", "T", "U", "V", "W", "X", "Y", "Z"}
IdentStart == Letters \cup {"_"}
IdentChars == Letters \cup Digits \cup {"_"}

DigitValue(c) ==
    CASE c = "0" -> 0 [] c = "1" -> 1 [] c = "2" -> 2 [] c = "3" -> 3
      [] c = "4" -> 4 [] c = "5" -> 5 [] c = "6" -> 6 [] c = "7" -> 7
      [] c = "8" -> 8 [] c = "9" -> 9

\* Token variants
Tok(t) == [type |-> t]
TNumber(v) == [type |-> "Number", value |-> v]
TIdentifier(n) == [type |-> "Identifier", name |-> n]
TString(v) == [type |-> "String", value |-> v]
TLabel(n) == [type |-> "Label", name |-> n]

RECURSIVE ParseI32From(_, _, _)
\* str::parse::<i32>() of a run of digits: checked multiply-and-add, an Err
\* (here ok = FALSE) as soon as the value leaves the i32 range
ParseI32From(ds, i, acc) ==
    IF i > Len(ds) THEN [ok |-> TRUE, value |-> acc]
    ELSE LET d == DigitValue(ds[i]) IN
         IF acc > (I32Max - d) \div 10
             THEN [ok |-> FALSE, value |-> 0]
             ELSE ParseI32From(ds, i + 1, acc * 10 + d)

ParseI32(ds) == ParseI32From(ds, 1, 0)

RECURSIVE RunEnd(_, _, _)
\* while let Some(<class>) = chars.peek() { push(chars.next()) }: the first
\* position at or after i whose character is not in class
RunEnd(line, i, class) ==
    IF i <= Len(line) /\ line[i] \in class THEN RunEnd(line, i + 1, class) ELSE i

RECURSIVE StringEnd(_, _)
\* while let Some(c) = chars.next() { if c == '"' break; push(c) }: the
\* position of the closing quote, or Len(line) + 1 when the line ends first
StringEnd(line, i) ==
    IF i > Len(line) \/ line[i] = "\"" THEN i ELSE StringEnd(line, i + 1)

\* match name.as_str() { keywords..., _ => Identifier }
Keyword(name) ==
    CASE name = "label" -> TLabel(name)
      [] name = "goto" -> Tok("Goto")
      [] name = "print" -> Tok("Print")
      [] name = "input" -> Tok("Input")
      [] name = "let" -> Tok("Let")
      [] name = "if" -> Tok("If")
      [] name = "then" -> Tok("Then")
      [] name = "endif" -> Tok("Endif")
      [] name = "while" -> Tok("While")
      [] name = "repeat" -> Tok("Repeat")
      [] name = "endwhile" -> Tok("Endwhile")
      [] OTHER -> TIdentifier(name)

\* results of lex: Ok(tokens), Err(message), or a panic (unwrap of an Err)
LexOkR(toks) == [status |-> "ok", tokens |-> toks]
LexErrR(toks) == [status |-> "err", tokens |-> toks]
LexPanicR(toks) == [status |-> "panic", tokens |-> toks]

\* '=' / '<' / '>' : two characters when an '=' follows
PeekEq(line, i) == i + 1 <= Len(line) /\ line[i + 1] = "="

RECURSIVE LexLine(_, _, _)
\* the inner loop of lex over the characters of one line, from position i,
\* with the tokens pushed so far
LexLine(line, i, tokens) ==
    IF i > Len(line) THEN LexOkR(tokens)
    ELSE LET c == line[i] IN
      CASE c = NUL -> LexLine(line, i + 1, Append(tokens, Tok("EOF")))
        [] c \in {" ", "\t", "\r"} -> LexLine(line, i + 1, tokens)
        [] c = "\n" -> LexLine(line, i + 1, Append(tokens, Tok("Newline")))
        [] c \in Digits ->
             LET j == RunEnd(line, i + 1, Digits)
                 v == ParseI32(SubSeq(line, i, j - 1))
             IN IF v.ok THEN LexLine(line, j, Append(tokens, TNumber(v.value)))
                        ELSE LexPanicR(tokens)
        [] c = "\"" ->
             LET j == StringEnd(line, i + 1)
             IN LexLine(line, j + 1,
                        Append(tokens, TString(Concat(SubSeq(line, i + 1, j - 1)))))
        [] c \in IdentStart ->
             LET j == RunEnd(line, i + 1, IdentChars)
             IN LexLine(line, j, Append(tokens, Keyword(Concat(SubSeq(line, i, j - 1)))))
        [] c = "=" ->
             IF PeekEq(line, i)
                 THEN LexLine(line, i + 2, Append(tokens, Tok("EqualEqual")))
                 ELSE LexLine(line, i + 1, Append(tokens, Tok("Equal")))
        [] c = "+" -> LexLine(line, i + 1, Append(tokens, Tok("Plus")))
        [] c = "-" -> LexLine(line, i + 1, Append(tokens, Tok("Minus")))
        [] c = "*" -> LexLine(line, i + 1, Append(tokens, Tok("Asterisk")))
        [] c = "/" -> LexLine(line, i + 1, Append(tokens, Tok("Slash")))
        [] c = "!" ->
             IF PeekEq(line, i)
                 THEN LexLine(line, i + 2, Append(tokens, Tok("NotEqual")))
                 ELSE LexErrR(tokens)
        [] c = "<" ->
             IF PeekEq(line, i)
                 THEN LexLine(line, i + 2, Append(tokens, Tok("LessThanEqual")))
                 ELSE LexLine(line, i + 1, Append(tokens, Tok("LessThan")))
        [] c = ">" ->
             IF PeekEq(line, i)
                 THEN LexLine(line, i + 2, Append(tokens, Tok("GreaterThanEqual")))
                 ELSE LexLine(line, i + 1, Append(tokens, Tok("GreaterThan")))
        [] OTHER -> LexErrR(tokens)

RECURSIVE LinesFrom(_, _, _)
\* str::lines(): the text split at every "\n", the "\n" (and a "\r" right
\* before it) removed; a last line without "\n" is kept, an empty rest is not
LinesFrom(text, i, start) ==
    IF i > Len(text)
        THEN IF start > Len(text) THEN <<>> ELSE <<SubSeq(text, start, Len(text))>>
    ELSE IF text[i] = "\n"
        THEN LET stop == IF i - 1 >= start /\ text[i - 1] = "\r" THEN i - 2 ELSE i - 1
             IN <<SubSeq(text, start, stop)>> \o LinesFrom(text, i + 1, i + 1)
    ELSE LinesFrom(text, i + 1, start)

\* a lines() that does not split: the whole text as one line
LinesUnsplit(text) == <<text>>

Lines(text) == LinesFrom(text, 1, 1)

RECURSIVE LexLines(_, _, _)
\* the outer loop of lex: one line after the other into the same tokens
LexLines(ls, k, tokens) ==
    IF k > Len(ls) THEN LexOkR(tokens)
    ELSE LET r == LexLine(ls[k], 1, tokens)
         IN IF r.status = "ok" THEN LexLines(ls, k + 1, r.tokens) ELSE r

\* pub fn lex(input: &str) -> Result<Vec<Token>, Box<dyn Error>>
lex(text) == LexLines(Lines(text), 1, <<>>)

(***************************************************************************)
(* Parser: src/parser.rs                                                   *)
(*                                                                         *)
(* The Peekable<TokenIterator> is the token sequence and the index of the  *)
(* next token (1-based).  Every parse function returns a record with ok,   *)
(* the index it leaves the cursor at, and on success the node it built.    *)
(***************************************************************************)
NoneTok == [type |-> "None"]

\* expr_out before parse_expression has been called
NoResult == [ok |-> FALSE, idx |-> 0]

\* tokens.peek(): the next token, not consumed; None past the end
Peek(toks, i) == IF i <= Len(toks) THEN toks[i] ELSE NoneTok

\* TokenIterator::next: the index moves on only while a token is left
Advance(toks, i) == IF i <= Len(toks) THEN i + 1 ELSE i

\* AST nodes
PNumber(v) == [tag |-> "Number", value |-> v]
PIdent(n) == [tag |-> "Ident", name |-> n]
UPlus(p) == [tag |-> "Plus", primary |-> p]
UMinus(p) == [tag |-> "Minus", primary |-> p]
TermSingleUnary(u) == [tag |-> "SingleUnary", unary |-> u]
TermWithTail(u, tl) == [tag |-> "WithTail", unary |-> u, tail |-> tl]
TailMultiply(u) == [tag |-> "Multiply", unary |-> u]
TailDivide(u) == [tag |-> "Divide", unary |-> u]
ExprSingleTerm(t) == [tag |-> "SingleTerm", term |-> t]
ExprWithTail(t, tl) == [tag |-> "WithTail", term |-> t, tail |-> tl]
TailAdd(t) == [tag |-> "Add", term |-> t]
TailSubtract(t) == [tag |-> "Subtract", term |-> t]
Cmp(op, l, r) == [tag |-> op, left |-> l, right |-> r]
SPrintString(s) == [tag |-> "PrintString", text |-> s]
SPrintExpression(e) == [tag |-> "PrintExpression", expression |-> e]
SIf(c, b) == [tag |-> "If", comparison |-> c, body |-> b]
SWhile(c, b) == [tag |-> "While", comparison |-> c, body |-> b]
SLabel(n) == [tag |-> "Label", name |-> n]
SGoto(n) == [tag |-> "Goto", name |-> n]
SLet(id, e) == [tag |-> "Let", ident |-> id, expression |-> e]
SInput(id) == [tag |-> "Input", ident |-> id]

POk(v, i) == [ok |-> TRUE, val |-> v, idx |-> i]
PErr(i) == [ok |-> FALSE, idx |-> i]

\* the ? operator and the match-on-Result idiom: an Err is returned as it
\* is, an Ok value goes on into the continuation K (the rest of the function
\* body after the call)
AndThen(r, K(_)) == IF r.ok THEN K(r) ELSE r

\* fn parse_primary
parse_primary(toks, i) ==
    LET primary == Peek(toks, i) IN
    CASE primary.type = "Number" -> POk(PNumber(primary.value), Advance(toks, i))
      [] primary.type = "Identifier" -> POk(PIdent(primary.name), Advance(toks, i))
      [] OTHER -> PErr(Advance(toks, i))

\* fn parse_unary
parse_unary(toks, i) ==
    LET unary == Peek(toks, i) IN
    CASE unary.type = "Plus" ->
           AndThen(parse_primary(toks, Advance(toks, i)),
                   LAMBDA p : POk(UPlus(p.val), p.idx))
      [] unary.type = "Minus" ->
           AndThen(parse_primary(toks, Advance(toks, i)),
                   LAMBDA p : POk(UMinus(p.val), p.idx))
      [] OTHER ->
           AndThen(parse_primary(toks, i),
                   LAMBDA p : POk(UPlus(p.val), p.idx))

RECURSIVE TermTailLoop(_, _, _)
\* the while-let loop of parse_term, with the tail entries pushed so far
TermTailLoop(toks, i, tailunaries) ==
    LET token == Peek(toks, i) IN
    CASE token.type = "Asterisk" ->
           AndThen(parse_unary(toks, Advance(toks, i)),
                   LAMBDA u : TermTailLoop(toks, u.idx,
                                  Append(tailunaries, TailMultiply(u.val))))
      [] token.type = "Slash" ->
           AndThen(parse_unary(toks, Advance(toks, i)),
                   LAMBDA u : TermTailLoop(toks, u.idx,
                                  Append(tailunaries, TailDivide(u.val))))
      [] OTHER -> POk(tailunaries, i)

\* fn parse_term
parse_term(toks, i) ==
    AndThen(parse_unary(toks, i),
            LAMBDA initialunary :
                IF Peek(toks, initialunary.idx).type \in {"Asterisk", "Slash"}
                    THEN AndThen(TermTailLoop(toks, initialunary.idx, <<>>),
                                 LAMBDA tl : POk(TermWithTail(initialunary.val, tl.val),
                                                 tl.idx))
                    ELSE POk(TermSingleUnary(initialunary.val), initialunary.idx))

\* an if where the while belongs: at most one tail entry is taken
ExprTailOnce(toks, i, tailterms) ==
    LET token == Peek(toks, i) IN
    CASE token.type = "Plus" ->
           AndThen(parse_term(toks, Advance(toks, i)),
                   LAMBDA t : POk(Append(tailterms, TailAdd(t.val)), t.idx))
      [] token.type = "Minus" ->
           AndThen(parse_term(toks, Advance(toks, i)),
                   LAMBDA t : POk(Append(tailterms, TailSubtract(t.val)), t.idx))
      [] OTHER -> POk(tailterms, i)

RECURSIVE ExprTailLoop(_, _, _)
\* the while-let loop of parse_expression, with the tail entries pushed so far
ExprTailLoop(toks, i, tailterms) ==
    LET token == Peek(toks, i) IN
    CASE token.type = "Plus" ->
           AndThen(parse_term(toks, Advance(toks, i)),
                   LAMBDA t : ExprTailLoop(toks, t.idx, Append(tailterms, TailAdd(t.val))))
      [] token.type = "Minus" ->
           AndThen(parse_term(toks, Advance(toks, i)),
                   LAMBDA t : ExprTailLoop(toks, t.idx,
                                  Append(tailterms, TailSubtract(t.val))))
      [] OTHER -> POk(tailterms, i)

\* fn parse_expression
parse_expression(toks, i) ==
    AndThen(parse_term(toks, i),
            LAMBDA initialterm :
                IF Peek(toks, initialterm.idx).type \in {"Plus", "Minus"}
                    THEN AndThen(ExprTailLoop(toks, initialterm.idx, <<>>),
                                 LAMBDA tl : POk(ExprWithTail(initialterm.val, tl.val),
                                                 tl.idx))
                    ELSE POk(ExprSingleTerm(initialterm.val), initialterm.idx))

\* the comparison operator tokens and the Comparison variant each builds
ComparatorTag(type) ==
    CASE type = "EqualEqual" -> "Equal"
      [] type = "NotEqual" -> "NotEqual"
      [] type = "GreaterThan" -> "GreaterThan"
      [] type = "GreaterThanEqual" -> "GreaterThanEqual"
      [] type = "LessThan" -> "LessThan"
      [] type = "LessThanEqual" -> "LessThanEqual"
      [] OTHER -> "none"

\* match comparator { Some(op) => Ok(Comparison::..), _ => Err(..) }
MatchComparator(tag, expression, expression2) ==
    IF tag = "none" THEN PErr(expression2.idx)
                    ELSE POk(Cmp(tag, expression.val, expression2.val), expression2.idx)

\* fn parse_comparison
parse_comparison(toks, i) ==
    AndThen(parse_expression(toks, i),
            LAMBDA expression :
                AndThen(parse_expression(toks, Advance(toks, expression.idx)),
                        LAMBDA expression2 :
                            MatchComparator(
                                ComparatorTag(Peek(toks, expression.idx).type),
                                expression, expression2)))

\* Some(Token::Identifier { name }) => name, _ => return Err(..)
ExpectIdentifier(toks, i) ==
    LET t == Peek(toks, i) IN
    IF t.type = "Identifier" THEN POk(t.name, Advance(toks, i))
                             ELSE PErr(Advance(toks, i))

\* Some(Token::Equal) => {}, _ => return Err(..)
ExpectEqual(toks, i) ==
    IF Peek(toks, i).type = "Equal" THEN POk("=", Advance(toks, i))
                                    ELSE PErr(Advance(toks, i))

RECURSIVE parse_statement(_, _)
RECURSIVE StatementIfBody(_, _, _)
RECURSIVE StatementWhileBody(_, _, _)

\* the body loop of the If arm of parse_statement
StatementIfBody(toks, i, body) ==
    LET token == Peek(toks, i) IN
    CASE token.type = "None" -> POk(body, i)
      [] token.type = "Endif" -> POk(body, Advance(toks, i))
      [] OTHER ->
           AndThen(parse_statement(toks, i),
                   LAMBDA st : StatementIfBody(toks, st.idx, Append(body, st.val)))

\* the body loop of the While arm of parse_statement
StatementWhileBody(toks, i, body) ==
    LET token == Peek(toks, i) IN
    CASE token.type = "None" -> POk(body, i)
      [] token.type = "Endwhile" -> POk(body, Advance(toks, i))
      [] OTHER ->
           AndThen(parse_statement(toks, i),
                   LAMBDA st : StatementWhileBody(toks, st.idx, Append(body, st.val)))

\* fn parse_statement: one statement of an If/While body
parse_statement(toks, i) ==
    LET token == Peek(toks, i)
        j == Advance(toks, i)
    IN
    CASE token.type = "Print" ->
           IF Peek(toks, j).type = "String"
               THEN POk(SPrintString(Peek(toks, j).value), j)
               ELSE AndThen(parse_expression(toks, j),
                            LAMBDA e : POk(SPrintExpression(e.val), e.idx))
      [] token.type = "If" ->
           AndThen(parse_comparison(toks, j),
                   LAMBDA c : AndThen(StatementIfBody(toks, c.idx, <<>>),
                                      LAMBDA b : POk(SIf(c.val, b.val), b.idx)))
      [] token.type = "While" ->
           AndThen(parse_comparison(toks, j),
                   LAMBDA c : AndThen(StatementWhileBody(toks, c.idx, <<>>),
                                      LAMBDA b : POk(SWhile(c.val, b.val), b.idx)))
      [] token.type = "Label" -> POk(SLabel(token.name), j)
      [] token.type = "Goto" ->
           AndThen(ExpectIdentifier(toks, j),
                   LAMBDA name : POk(SGoto(name.val), name.idx))
      [] token.type = "Let" ->
           AndThen(ExpectIdentifier(toks, j),
                   LAMBDA ident :
                       AndThen(ExpectEqual(toks, ident.idx),
                               LAMBDA eq :
                                   AndThen(parse_expression(toks, eq.idx),
                                           LAMBDA e : POk(SLet(ident.val, e.val),
                                                          e.idx))))
      [] token.type = "Input" ->
           AndThen(ExpectIdentifier(toks, j),
                   LAMBDA ident : POk(SInput(ident.val), ident.idx))
      [] OTHER -> PErr(j)

RECURSIVE ParseIfBody(_, _, _)
\* the body loop of the If arm of parse: an interior Then is skipped
ParseIfBody(toks, i, body) ==
    LET token == Peek(toks, i) IN
    CASE token.type = "None" -> POk(body, i)
      [] token.type = "Endif" -> POk(body, Advance(toks, i))
      [] token.type = "Then" -> ParseIfBody(toks, Advance(toks, i), body)
      [] OTHER ->
           AndThen(parse_statement(toks, i),
                   LAMBDA st : ParseIfBody(toks, st.idx, Append(body, st.val)))

RECURSIVE ParseWhileBody(_, _, _)
\* the body loop of the While arm of parse: an interior Repeat is skipped
ParseWhileBody(toks, i, body) ==
    LET token == Peek(toks, i) IN
    CASE token.type = "None" -> POk(body, i)
      [] token.type = "Endwhile" -> POk(body, Advance(toks, i))
      [] token.type = "Repeat" -> ParseWhileBody(toks, Advance(toks, i), body)
      [] OTHER ->
           AndThen(parse_statement(toks, i),
                   LAMBDA st : ParseWhileBody(toks, st.idx, Append(body, st.val)))

\* one iteration of the top-level loop of parse: the statement that starts
\* with the token at i (which is Some)
ParseTopStatement(toks, i) ==
    LET token == Peek(toks, i)
        j == Advance(toks, i)
    IN
    CASE token.type = "Print" ->
           \* let next = tokens.next(): consumed whatever it is
           IF Peek(toks, j).type = "String"
               THEN POk(SPrintString(Peek(toks, j).value), Advance(toks, j))
               ELSE AndThen(parse_expression(toks, Advance(toks, j)),
                            LAMBDA e : POk(SPrintExpression(e.val), e.idx))
      [] token.type = "If" ->
           AndThen(parse_comparison(toks, j),
                   LAMBDA c : AndThen(ParseIfBody(toks, c.idx, <<>>),
                                      LAMBDA b : POk(SIf(c.val, b.val), b.idx)))
      [] token.type = "While" ->
           AndThen(parse_comparison(toks, j),
                   LAMBDA c : AndThen(ParseWhileBody(toks, c.idx, <<>>),
                                      LAMBDA b : POk(SWhile(c.val, b.val), b.idx)))
      [] token.type = "Label" ->
           AndThen(ExpectIdentifier(toks, j),
                   LAMBDA name : POk(SLabel(name.val), name.idx))
      [] token.type = "Goto" ->
           AndThen(ExpectIdentifier(toks, j),
                   LAMBDA name : POk(SGoto(name.val), name.idx))
      [] token.type = "Let" ->
           \* after the '=', line 195 (tokens.next();) consumes one more token
           AndThen(ExpectIdentifier(toks, j),
                   LAMBDA ident :
                       AndThen(ExpectEqual(toks, ident.idx),
                               LAMBDA eq :
                                   AndThen(parse_expression(toks, Advance(toks, eq.idx)),
                                           LAMBDA e : POk(SLet(ident.val, e.val),
                                                          e.idx))))
      [] token.type = "Input" ->
           AndThen(ExpectIdentifier(toks, j),
                   LAMBDA ident : POk(SInput(ident.val), ident.idx))
      [] OTHER -> PErr(j)

RECURSIVE ParseLoop(_, _, _)
\* while let Some(token) = tokens.next() { ... } of parse, with the
\* statements pushed so far
ParseLoop(toks, i, statements) ==
    IF i > Len(toks) THEN POk(statements, i)
    ELSE AndThen(ParseTopStatement(toks, i),
                 LAMBDA st : ParseLoop(toks, st.idx, Append(statements, st.val)))

\* pub fn parse: Ok(AST::Program(statements)) or Err
parse(toks) == ParseLoop(toks, 1, <<>>)

(***************************************************************************)
(* The token cursor: Peekable<TokenIterator>, src/lexer.rs 139-162 and      *)
(* main.rs 35.  index is TokenIterator.index (0-based: the number of tokens *)
(* fetched from the slice), peeked the buffer of Peekable: "empty", "token" *)
(* (the token fetched last is held for the next call) or "end" (a None is   *)
(* held).                                                                   *)
(***************************************************************************)
\* TokenIterator::new(&lex_out).peekable()
NewTokenIterator == [index |-> 0, peeked |-> "empty"]

\* no parse call is being stepped through
ParserIdle ==
    /\ token_iterator = NewTokenIterator
    /\ stack = <<>>
    /\ cursor_op = "none"
    /\ steps = 0

(***************************************************************************)
(* Inputs of the lexer and its step in main.                               *)
(***************************************************************************)
\* a letter pair that spells a keyword, a digit, the quote, blank, newline,
\* one- and two-character operators, NUL, and a character lex does not know
LexAlphabet == {"i", "f", "9", "\"", " ", "\n", "=", "!", "+", NUL, "#"}
DigitAlphabet == {"0", "9"}

InitLex ==
    /\ pc = "lex"
    /\ \/ \E k \in 0..MaxLen : input \in [1..k -> LexAlphabet]
       \/ \E k \in 0..MaxDigits : input \in [1..k -> DigitAlphabet]
    /\ lex_out = <<>>
    /\ parse_out = <<>>
    /\ expr_out = NoResult
    /\ output = <<>>
    /\ err = "none"
    /\ stdout = <<>>
    /\ ParserIdle

\* let lex_out = lexer::lex(&input).unwrap();  lex returned Ok
LexOk ==
    /\ pc = "lex"
    /\ lex(input).status = "ok"
    /\ lex_out' = lex(input).tokens
    /\ pc' = "parse"
    /\ UNCHANGED <<input, parse_out, expr_out, output, err, stdout, parser_vars>>

\* lex returned Err (a bare '!' or an unexpected character); unwrap aborts
LexErr ==
    /\ pc = "lex"
    /\ lex(input).status = "err"
    /\ pc' = "aborted"
    /\ err' = "lex_err"
    /\ UNCHANGED <<input, lex_out, parse_out, expr_out, output, stdout, parser_vars>>

\* value.parse().unwrap() panicked inside lex
LexPanic ==
    /\ pc = "lex"
    /\ lex(input).status = "panic"
    /\ pc' = "aborted"
    /\ err' = "lex_panic"
    /\ UNCHANGED <<input, lex_out, parse_out, expr_out, output, stdout, parser_vars>>

NextLex == LexOk \/ LexErr \/ LexPanic

SpecLex == InitLex /\ [][NextLex]_vars

(***************************************************************************)
(* Inputs of parse_expression and the call of it.                          *)
(***************************************************************************)
ExprAlphabet ==
    {TNumber(1), TNumber(2), Tok("Plus"), Tok("Minus"), Tok("Asterisk"),
     Tok("Slash"), Tok("EqualEqual")}

InitExpr ==
    /\ pc = "call_parse_expression"
    /\ input = <<>>
    /\ \E k \in 0..MaxExprToks : lex_out \in [1..k -> ExprAlphabet]
    /\ parse_out = <<>>
    /\ expr_out = NoResult
    /\ output = <<>>
    /\ err = "none"
    /\ stdout = <<>>
    /\ ParserIdle

\* parse_expression(tokens) on a fresh cursor returned Ok(expression)
ParseExpressionOk ==
    /\ pc = "call_parse_expression"
    /\ parse_expression(lex_out, 1).ok
    /\ expr_out' = parse_expression(lex_out, 1)
    /\ pc' = "returned"
    /\ UNCHANGED <<input, lex_out, parse_out, output, err, stdout, parser_vars>>

\* parse_expression(tokens) on a fresh cursor returned Err
ParseExpressionErr ==
    /\ pc = "call_parse_expression"
    /\ ~parse_expression(lex_out, 1).ok
    /\ expr_out' = parse_expression(lex_out, 1)
    /\ pc' = "returned"
    /\ err' = "parse_err"
    /\ UNCHANGED <<input, lex_out, parse_out, output, stdout, parser_vars>>

NextExpr == ParseExpressionOk \/ ParseExpressionErr

SpecExpr == InitExpr /\ [][NextExpr]_vars

(***************************************************************************)
(* Inputs of parse and its step in main.                                   *)
(***************************************************************************)
\* the lexeme groups programs are put together from
Fragments ==
    { <<Tok("Print")>>,
      <<TString("hi")>>,
      <<TNumber(1)>>,
      <<Tok("Plus"), TNumber(2)>>,
      <<Tok("If"), TNumber(1), Tok("EqualEqual"), TNumber(1)>>,
      <<Tok("If"), TIdentifier("x"), Tok("NotEqual"), TNumber(2), Tok("Then")>>,
      <<Tok("Then")>>,
      <<Tok("Endif")>>,
      <<Tok("While"), TNumber(1), Tok("GreaterThan"), TNumber(2), Tok("Repeat")>>,
      <<Tok("While"), TIdentifier("x"), Tok("LessThan"), TNumber(2)>>,
      <<Tok("Repeat")>>,
      <<Tok("Endwhile")>>,
      <<Tok("Let"), TIdentifier("x"), Tok("Equal")>>,
      <<Tok("Input"), TIdentifier("x")>>,
      <<TLabel("label"), TIdentifier("foo")>>,
      <<Tok("Goto"), TIdentifier("foo")>> }

RECURSIVE Flatten(_)
Flatten(seqs) == IF seqs = <<>> THEN <<>> ELSE Head(seqs) \o Flatten(Tail(seqs))


InitParse ==
    /\ pc = "parse"
    /\ input = <<>>
    /\ \E k \in 0..MaxFrags : \E fs \in [1..k -> Fragments] : lex_out = Flatten(fs)
    /\ parse_out = <<>>
    /\ expr_out = NoResult
    /\ output = <<>>
    /\ err = "none"
    /\ stdout = <<>>
    /\ ParserIdle

\* let parse_out = parser::parse(&mut token_iterator).unwrap();  parse
\* returned Ok(AST::Program(statements))
ParseOk ==
    /\ pc = "parse"
    /\ parse(lex_out).ok
    /\ parse_out' = parse(lex_out).val
    /\ pc' = "emit"
    /\ UNCHANGED <<input, lex_out, expr_out, output, err, stdout, parser_vars>>

\* an unwrap_or_default where the unwrap belongs: after an Err the run goes on
\* to emit, with no statement
ParseErrContinue ==
    /\ pc = "parse"
    /\ ~parse(lex_out).ok
    /\ pc' = "emit"
    /\ err' = "parse_err"
    /\ UNCHANGED <<input, lex_out, parse_out, expr_out, output, stdout, parser_vars>>

\* parse returned Err; unwrap aborts
ParseErr ==
    /\ pc = "parse"
    /\ ~parse(lex_out).ok
    /\ pc' = "aborted"
    /\ err' = "parse_err"
    /\ UNCHANGED <<input, lex_out, parse_out, expr_out, output, stdout, parser_vars>>

NextParse == ParseOk \/ ParseErr

SpecParse == InitParse /\ [][NextParse]_vars

(***************************************************************************)
(* The parser step by step: the same functions of src/parser.rs, followed   *)
(* one cursor operation at a time.  A step is one tokens.next(), or one     *)
(* tokens.peek() (a run of peeks with nothing between them is one peek),    *)
(* together with the control flow up to the next cursor operation, call or  *)
(* return; a step without a cursor operation is a return.  The steps follow *)
(* the cursor and the control flow; the nodes built are those of parse.     *)
(***************************************************************************)
\* TokenIterator::next
TokenIteratorNext(toks, it) ==
    IF it.index < Len(toks)
        THEN [tok |-> toks[it.index + 1], it |-> [it EXCEPT !.index = @ + 1]]
        ELSE [tok |-> NoneTok, it |-> it]

\* Peekable::next: the item held in the buffer if there is one, else the
\* next item of the iterator
PeekableNext(toks, it) ==
    CASE it.peeked = "token" ->
           [tok |-> toks[it.index], it |-> [it EXCEPT !.peeked = "empty"]]
      [] it.peeked = "end" ->
           [tok |-> NoneTok, it |-> [it EXCEPT !.peeked = "empty"]]
      [] OTHER -> TokenIteratorNext(toks, it)

\* a peek that hands the item out without keeping it in the buffer
PeekConsuming(toks, it) == TokenIteratorNext(toks, it)

\* Peekable::peek: fills the buffer from the iterator when it is empty
PeekablePeek(toks, it) ==
    IF it.peeked = "empty"
        THEN LET r == TokenIteratorNext(toks, it) IN
             [tok |-> r.tok,
              it |-> [r.it EXCEPT !.peeked = IF r.tok.type = "None" THEN "end"
                                                                    ELSE "token"]]
        ELSE [tok |-> IF it.peeked = "token" THEN toks[it.index] ELSE NoneTok,
              it |-> it]

\* the position of the cursor: the number of tokens the parser has taken
Position(it) == it.index - (IF it.peeked = "token" THEN 1 ELSE 0)

\* a call of fn at its control point at; mark and body_mark are the cursor
\* positions at the last pass through the head of the function's loop and
\* of its body loop (-1: not passed yet), saved the type of the comparator
Frame(fn, at) == [fn |-> fn, at |-> at, mark |-> 0 - 1, body_mark |-> 0 - 1,
                  saved |-> "None"]

Nx == PeekableNext(lex_out, token_iterator)
Pk == PeekablePeek(lex_out, token_iterator)

\* the frame goes on at another control point
Stay(f, at) == <<[f EXCEPT !.at = at]>> \o Tail(stack)
\* the frame calls fn and goes on at `at` when the call has returned Ok
CallFrom(f, at, fn) == <<Frame(fn, "start")>> \o Stay(f, at)
\* the function returns Ok / returns Err
ReturnOk == [stack |-> Tail(stack), ok |-> TRUE]
ReturnErr == [stack |-> Tail(stack), ok |-> FALSE]
GoOn(stk) == [stack |-> stk, ok |-> TRUE]

ByNext(out) ==
    [cursor_op |-> "next", it |-> Nx.it, stack |-> out.stack, ok |-> out.ok]
ByPeek(out) ==
    [cursor_op |-> "peek", it |-> Pk.it, stack |-> out.stack, ok |-> out.ok]
ByNone(out) ==
    [cursor_op |-> "none", it |-> token_iterator, stack |-> out.stack, ok |-> out.ok]

\* Some(Token::Identifier { name }) => name, _ => return Err(..)
IdentifierThen(at, f) ==
    ByNext(IF Nx.tok.type = "Identifier" THEN GoOn(Stay(f, at)) ELSE ReturnErr)

\* the body loop of an If (While) arm of parse: closer is Endif (Endwhile),
\* skipped is Then (Repeat); when the loop ends parse is back in its own loop
ParseBodyHead(f, closer, skipped, head, close, skip) ==
    LET b == [f EXCEPT !.body_mark = Position(token_iterator)] IN
    ByPeek(CASE Pk.tok.type = "None" -> GoOn(Stay(b, "loop"))
             [] Pk.tok.type = closer -> GoOn(Stay(b, close))
             [] Pk.tok.type = skipped -> GoOn(Stay(b, skip))
             [] OTHER -> GoOn(CallFrom(b, head, "parse_statement")))

\* fn parse, lines 107-218
ParseStep ==
    LET f == Head(stack)
        m == [f EXCEPT !.mark = Position(token_iterator), !.body_mark = 0 - 1]
    IN
    CASE f.at = "loop" ->
           ByNext(CASE Nx.tok.type = "None" -> ReturnOk
                    [] Nx.tok.type = "Print" -> GoOn(Stay(m, "print_next"))
                    [] Nx.tok.type = "If" ->
                         GoOn(CallFrom(m, "if_body", "parse_comparison"))
                    [] Nx.tok.type = "While" ->
                         GoOn(CallFrom(m, "while_body", "parse_comparison"))
                    [] Nx.tok.type \in {"Label", "Goto", "Input"} ->
                         GoOn(Stay(m, "ident"))
                    [] Nx.tok.type = "Let" -> GoOn(Stay(m, "let_ident"))
                    [] OTHER -> ReturnErr)
      [] f.at = "print_next" ->
           ByNext(IF Nx.tok.type = "String"
                      THEN GoOn(Stay(f, "loop"))
                      ELSE GoOn(CallFrom(f, "loop", "parse_expression")))
      [] f.at = "if_body" ->
           ParseBodyHead(f, "Endif", "Then", "if_body", "body_close", "if_skip")
      [] f.at = "while_body" ->
           ParseBodyHead(f, "Endwhile", "Repeat", "while_body", "body_close",
                         "while_skip")
      [] f.at = "body_close" -> ByNext(GoOn(Stay(f, "loop")))
      [] f.at = "if_skip" -> ByNext(GoOn(Stay(f, "if_body")))
      [] f.at = "while_skip" -> ByNext(GoOn(Stay(f, "while_body")))
      [] f.at = "ident" -> IdentifierThen("loop", f)
      [] f.at = "let_ident" -> IdentifierThen("let_equal", f)
      [] f.at = "let_equal" ->
           ByNext(IF Nx.tok.type = "Equal" THEN GoOn(Stay(f, "let_stray"))
                                           ELSE ReturnErr)
      \* line 195
      [] f.at = "let_stray" -> ByNext(GoOn(CallFrom(f, "loop", "parse_expression")))

\* the body loop of an If (While) arm of parse_statement
StatementBodyHead(f, closer, head) ==
    LET b == [f EXCEPT !.body_mark = Position(token_iterator)] IN
    ByPeek(CASE Pk.tok.type = "None" -> ReturnOk
             [] Pk.tok.type = closer -> GoOn(Stay(b, "body_close"))
             [] OTHER -> GoOn(CallFrom(b, head, "parse_statement")))

\* fn parse_statement, lines 220-310
ParseStatementStep ==
    LET f == Head(stack) IN
    CASE f.at = "start" ->
           ByNext(CASE Nx.tok.type = "Print" -> GoOn(Stay(f, "print_peek"))
                    [] Nx.tok.type = "If" ->
                         GoOn(CallFrom(f, "if_body", "parse_comparison"))
                    [] Nx.tok.type = "While" ->
                         GoOn(CallFrom(f, "while_body", "parse_comparison"))
                    [] Nx.tok.type = "Label" -> ReturnOk
                    [] Nx.tok.type \in {"Goto", "Input"} -> GoOn(Stay(f, "ident"))
                    [] Nx.tok.type = "Let" -> GoOn(Stay(f, "let_ident"))
                    [] OTHER -> GoOn(Stay(f, "err_peek")))
      [] f.at = "print_peek" ->
           ByPeek(IF Pk.tok.type = "String"
                      THEN ReturnOk
                      ELSE GoOn(CallFrom(f, "return", "parse_expression")))
      [] f.at = "if_body" -> StatementBodyHead(f, "Endif", "if_body")
      [] f.at = "while_body" -> StatementBodyHead(f, "Endwhile", "while_body")
      [] f.at = "body_close" -> ByNext(ReturnOk)
      [] f.at = "ident" ->
           ByNext(IF Nx.tok.type = "Identifier" THEN ReturnOk
                                                ELSE GoOn(Stay(f, "err_peek")))
      [] f.at = "let_ident" ->
           ByNext(IF Nx.tok.type = "Identifier" THEN GoOn(Stay(f, "let_equal"))
                                                ELSE GoOn(Stay(f, "err_peek")))
      [] f.at = "let_equal" ->
           ByNext(IF Nx.tok.type = "Equal"
                      THEN GoOn(CallFrom(f, "return", "parse_expression"))
                      ELSE GoOn(Stay(f, "err_peek")))
      \* println!("Unexpected token in STATEMENT: {:?}", tokens.peek());
      [] f.at = "err_peek" -> ByPeek(ReturnErr)
      [] f.at = "return" -> ByNone(ReturnOk)

\* fn parse_comparison, lines 312-350
ParseComparisonStep ==
    LET f == Head(stack) IN
    CASE f.at = "start" -> ByPeek(GoOn(CallFrom(f, "comparator_peek", "parse_expression")))
      [] f.at = "comparator_peek" -> ByPeek(GoOn(Stay(f, "comparator")))
      [] f.at = "comparator" ->
           ByNext(GoOn(Stay([f EXCEPT !.saved = Nx.tok.type], "second_peek")))
      [] f.at = "second_peek" ->
           ByPeek(GoOn(CallFrom(f, "match", "parse_expression")))
      [] f.at = "match" ->
           ByNone(IF ComparatorTag(f.saved) = "none" THEN ReturnErr ELSE ReturnOk)

\* parse_expression (parse_term): one callee (parse_term, parse_unary), then
\* the tail loop over the operators ops
TailLoopStep(f, callee, ops) ==
    CASE f.at = "start" -> ByPeek(GoOn(CallFrom(f, "after_first", callee)))
      [] f.at = "after_first" ->
           ByPeek(IF Pk.tok.type \in ops THEN GoOn(Stay(f, "tail")) ELSE ReturnOk)
      [] f.at = "tail" ->
           ByPeek(IF Pk.tok.type \in ops
                      THEN GoOn(Stay([f EXCEPT !.mark = Position(token_iterator)],
                                     "tail_next"))
                      ELSE ReturnOk)
      [] f.at = "tail_next" -> ByNext(GoOn(CallFrom(f, "tail", callee)))

\* fn parse_expression, lines 352-380
ParseExpressionStep == TailLoopStep(Head(stack), "parse_term", {"Plus", "Minus"})

\* fn parse_term, lines 382-410
ParseTermStep == TailLoopStep(Head(stack), "parse_unary", {"Asterisk", "Slash"})

\* fn parse_unary, lines 412-431
ParseUnaryStep ==
    LET f == Head(stack) IN
    CASE f.at = "start" ->
           ByPeek(IF Pk.tok.type \in {"Plus", "Minus"}
                      THEN GoOn(Stay(f, "sign_next"))
                      ELSE GoOn(CallFrom(f, "return", "parse_primary")))
      [] f.at = "sign_next" -> ByNext(GoOn(CallFrom(f, "return", "parse_primary")))
      [] f.at = "return" -> ByNone(ReturnOk)

\* fn parse_primary, lines 433-444
ParsePrimaryStep ==
    LET f == Head(stack) IN
    CASE f.at = "start" -> ByPeek(GoOn(Stay(f, "next")))
      [] f.at = "next" ->
           ByNext(IF Nx.tok.type \in {"Number", "Identifier"}
                      THEN ReturnOk
                      ELSE GoOn(Stay(f, "err_peek")))
      [] f.at = "err_peek" -> ByPeek(ReturnErr)

\* the innermost call being executed is one of fn and no Err is on its way up
Running(fn) == pc = "parsing" /\ stack # <<>> /\ Head(stack).fn = fn

\* the step r is taken
Apply(r) ==
    /\ stack' = r.stack
    /\ token_iterator' = r.it
    /\ cursor_op' = r.cursor_op
    /\ steps' = steps + 1
    /\ pc' = IF r.ok THEN "parsing" ELSE "unwinding"
    /\ UNCHANGED <<input, lex_out, parse_out, expr_out, output, err, stdout>>

StepParse == Running("parse") /\ Apply(ParseStep)
StepParseStatement == Running("parse_statement") /\ Apply(ParseStatementStep)
StepParseComparison == Running("parse_comparison") /\ Apply(ParseComparisonStep)
StepParseExpression == Running("parse_expression") /\ Apply(ParseExpressionStep)
StepParseTerm == Running("parse_term") /\ Apply(ParseTermStep)
StepParseUnary == Running("parse_unary") /\ Apply(ParseUnaryStep)
StepParsePrimary == Running("parse_primary") /\ Apply(ParsePrimaryStep)

\* the ? after a call: the caller returns the Err of its callee
Propagate ==
    /\ pc = "unwinding"
    /\ stack # <<>>
    /\ stack' = Tail(stack)
    /\ cursor_op' = "none"
    /\ steps' = steps + 1
    /\ UNCHANGED <<pc, input, lex_out, parse_out, expr_out, output, err, stdout,
                   token_iterator>>

\* parse has returned Ok(AST::Program(statements)) to main; the statements
\* are those of parse(lex_out), the steps follow the cursor alone
ParseReturnedOk ==
    /\ pc = "parsing"
    /\ stack = <<>>
    /\ pc' = "emit"
    /\ UNCHANGED <<input, lex_out, parse_out, expr_out, output, err, stdout, parser_vars>>

\* parse has returned Err to main; unwrap aborts
ParseReturnedErr ==
    /\ pc = "unwinding"
    /\ stack = <<>>
    /\ pc' = "aborted"
    /\ err' = "parse_err"
    /\ UNCHANGED <<input, lex_out, parse_out, expr_out, output, stdout, parser_vars>>

\* most token groups in a program parsed step by step
MaxStepFrags == 3

\* the lexeme groups of the programs parsed step by step
StepFragments ==
    { <<Tok("Print")>>,
      <<TString("hi")>>,
      <<TNumber(1)>>,
      <<Tok("Minus"), TNumber(2), Tok("Asterisk"), TIdentifier("x")>>,
      <<Tok("If"), TNumber(1), Tok("EqualEqual"), TNumber(1), Tok("Then")>>,
      <<Tok("Endif")>>,
      <<Tok("While"), TIdentifier("x"), Tok("LessThan"), TNumber(2), Tok("Repeat")>>,
      <<Tok("Endwhile")>>,
      <<Tok("Let"), TIdentifier("x"), Tok("Equal")>>,
      <<Tok("Goto"), TIdentifier("foo")>> }

\* longest program drawn token by token and parsed step by step
MaxStepToks == 3

\* the single tokens such programs are drawn from
StepAlphabet ==
    {Tok("If"), Tok("Print"), Tok("Let"), Tok("Endif"), TNumber(1),
     TIdentifier("x"), Tok("EqualEqual"), Tok("Minus")}

\* main has called parse on a fresh cursor
InitSteps ==
    /\ pc = "parsing"
    /\ input = <<>>
    /\ \/ \E k \in 0..MaxStepFrags :
              \E fs \in [1..k -> StepFragments] : lex_out = Flatten(fs)
       \/ \E k \in 0..MaxStepToks : lex_out \in [1..k -> StepAlphabet]
    /\ parse_out = <<>>
    /\ expr_out = NoResult
    /\ output = <<>>
    /\ err = "none"
    /\ stdout = <<>>
    /\ token_iterator = NewTokenIterator
    /\ stack = <<Frame("parse", "loop")>>
    /\ cursor_op = "none"
    /\ steps = 0

NextSteps ==
    \/ StepParse \/ StepParseStatement \/ StepParseComparison
    \/ StepParseExpression \/ StepParseTerm \/ StepParseUnary \/ StepParsePrimary
    \/ Propagate \/ ParseReturnedOk \/ ParseReturnedErr

\* the call runs on one thread to its return: a step that can be taken is taken
SpecSteps == InitSteps /\ [][NextSteps]_vars /\ WF_vars(NextSteps)

(***************************************************************************)
(* Emitter: src/emitter.rs                                                 *)
(***************************************************************************)
DigitChar(d) ==
    CASE d = 0 -> "0" [] d = 1 -> "1" [] d = 2 -> "2" [] d = 3 -> "3"
      [] d = 4 -> "4" [] d = 5 -> "5" [] d = 6 -> "6" [] d = 7 -> "7"
      [] d = 8 -> "8" [] d = 9 -> "9"

RECURSIVE FormatNat(_)
FormatNat(n) == IF n < 10 THEN DigitChar(n) ELSE FormatNat(n \div 10) \o DigitChar(n % 10)

\* format!("{}", number) of an i32
FormatI32(n) == IF n < 0 THEN "-" \o FormatNat(0 - n) ELSE FormatNat(n)

\* PrintString without the \n of the format string
EmitStatementNoNewline(statement) ==
    IF statement.tag = "PrintString"
        THEN <<"printf(\"" \o statement.text \o "\");">>
        ELSE <<>>

\* one iteration of the for loop of emit_program: the lines the match arm of
\* statement pushes onto code_body
EmitStatement(statement) ==
    CASE statement.tag = "PrintString" ->
           <<"printf(\"" \o statement.text \o "\\n\");">>
      [] statement.tag = "PrintExpression" ->
           LET expression == statement.expression IN
           IF expression.tag = "SingleTerm"
               THEN IF expression.term.tag = "SingleUnary"
                        THEN LET unary == expression.term.unary
                                 primary == unary.primary
                                 text == IF primary.tag = "Ident"
                                             THEN primary.name
                                             ELSE FormatI32(primary.value)
                             IN IF unary.tag = "Plus"
                                    THEN <<"printf(\"%d\\n\", " \o text \o ");">>
                                    ELSE <<"printf(\"%d\\n\", -" \o text \o ");">>
                        \* Term::WithTail(_unary, _tailunaries) => {}
                        ELSE <<>>
               ELSE <<"/* unimplemented expression with tail */">>
      [] statement.tag = "If" -> <<"/* unimplemented if statement */">>
      [] statement.tag = "While" -> <<"/* unimplemented while statement */">>
      [] statement.tag = "Label" -> <<"/* unimplemented label */">>
      [] statement.tag = "Goto" -> <<"/* unimplemented goto */">>
      [] statement.tag = "Let" -> <<"/* unimplemented let */">>
      [] statement.tag = "Input" -> <<"/* unimplemented input */">>

RECURSIVE EmitBody(_, _, _)
\* for statement in statements { ... }, with code_body so far
EmitBody(statements, k, code_body) ==
    IF k > Len(statements) THEN code_body
    ELSE EmitBody(statements, k + 1, code_body \o EmitStatement(statements[k]))

\* pub fn emit_program: always Ok(output), output = code_header ++ code_body
emit_program(statements) ==
    LET code_header == <<"#include <stdio.h>", "int main(void){\n">>
        code_body == EmitBody(statements, 1, <<>>) \o <<"return 0;", "}">>
    IN POk(code_header \o code_body, 0)

(***************************************************************************)
(* Inputs of emit_program and its step in main.                            *)
(***************************************************************************)
NumExpr(n) == ExprSingleTerm(TermSingleUnary(UPlus(PNumber(n))))

EmitExpressions ==
    { NumExpr(1),
      ExprSingleTerm(TermSingleUnary(UMinus(PNumber(10)))),
      ExprSingleTerm(TermSingleUnary(UPlus(PIdent("x")))),
      ExprSingleTerm(TermSingleUnary(UMinus(PIdent("x")))),
      ExprSingleTerm(TermWithTail(UPlus(PNumber(1)), <<TailMultiply(UPlus(PNumber(2)))>>)),
      ExprWithTail(TermSingleUnary(UPlus(PNumber(1))),
                   <<TailAdd(TermSingleUnary(UPlus(PNumber(2))))>>) }

SimpleStatements ==
    { SPrintString("waddup"), SPrintString("say \"hi\""),
      SLabel("foo"), SGoto("foo"), SGoto("bar"),
      SLet("x", NumExpr(1)), SInput("x"), SInput("y") }
      \cup {SPrintExpression(e) : e \in EmitExpressions}

Bodies == {<<>>, <<SGoto("bar")>>, <<SLabel("bar")>>, <<SLet("y", NumExpr(1))>>,
           <<SInput("x"), SPrintString("waddup")>>}

EmitStatements ==
    SimpleStatements
      \cup {SIf(Cmp("Equal", NumExpr(1), NumExpr(1)), b) : b \in Bodies}
      \cup {SWhile(Cmp("LessThan", NumExpr(1), NumExpr(1)), b) : b \in Bodies}

InitEmit ==
    /\ pc = "emit"
    /\ input = <<>>
    /\ lex_out = <<>>
    /\ \E k \in 0..MaxStmts : parse_out \in [1..k -> EmitStatements]
    /\ expr_out = NoResult
    /\ output = <<>>
    /\ err = "none"
    /\ stdout = <<>>
    /\ ParserIdle

\* let output = emitter::emit_program(statements).unwrap();  emit_program
\* has no Err path
EmitOk ==
    /\ pc = "emit"
    /\ emit_program(parse_out).ok
    /\ output' = emit_program(parse_out).val
    /\ pc' = "print"
    /\ UNCHANGED <<input, lex_out, parse_out, expr_out, err, stdout, parser_vars>>

NextEmit == EmitOk

SpecEmit == InitEmit /\ [][NextEmit]_vars

(***************************************************************************)
(* One compile run: fn main, src/main.rs                                   *)
(*                                                                         *)
(* stdout holds what main itself prints, in order: the echo of the source  *)
(* text (kind "input") and the emitted lines (kind "line").                *)
(***************************************************************************)
\* most words in a source file of a compile run
MaxWords == 4

\* the pieces source files are put together from
Words ==
    { <<"p", "r", "i", "n", "t", " ">>,
      <<"\"", "h", "i", "\"", "\n">>,
      <<"g", "o", "t", "o", " ", "x", "\n">>,
      <<"i", "f", " ", "x", "<", "1", " ", "t", "h", "e", "n", "\n">>,
      <<"e", "n", "d", "i", "f", "\n">>,
      <<"1", "\n">>,
      <<"!">>,
      <<"9", "9", "9", "9", "9", "9", "9", "9", "9", "9">> }

StdoutInput(text) == [kind |-> "input", text |-> text]
StdoutLine(line) == [kind |-> "line", text |-> line]
IsEmittedLine(e) == e.kind = "line"

\* the emitted lines printed so far
Emitted(out) ==
    LET ls == SelectSeq(out, IsEmittedLine) IN [k \in 1..Len(ls) |-> ls[k].text]

Init ==
    /\ pc = "read"
    /\ \E k \in 0..MaxWords : \E ws \in [1..k -> Words] : input = Flatten(ws)
    /\ lex_out = <<>>
    /\ parse_out = <<>>
    /\ expr_out = NoResult
    /\ output = <<>>
    /\ err = "none"
    /\ stdout = <<>>
    /\ ParserIdle

\* let input = fs::read_to_string(path).unwrap();  the file was read
ReadOk ==
    /\ pc = "read"
    /\ pc' = "echo"
    /\ UNCHANGED <<input, lex_out, parse_out, expr_out, output, err, stdout, parser_vars>>

\* read_to_string returned Err (no such file, not UTF-8); unwrap aborts
ReadErr ==
    /\ pc = "read"
    /\ pc' = "aborted"
    /\ err' = "read_err"
    /\ UNCHANGED <<input, lex_out, parse_out, expr_out, output, stdout, parser_vars>>

\* println!("{}", input);
EchoInput ==
    /\ pc = "echo"
    /\ stdout' = Append(stdout, StdoutInput(input))
    /\ pc' = "lex"
    /\ UNCHANGED <<input, lex_out, parse_out, expr_out, output, err, parser_vars>>

\* for line in output { println!("{}", line); }: one iteration
PrintLine ==
    /\ pc = "print"
    /\ Len(Emitted(stdout)) < Len(output)
    /\ stdout' = Append(stdout, StdoutLine(output[Len(Emitted(stdout)) + 1]))
    /\ UNCHANGED <<pc, input, lex_out, parse_out, expr_out, output, err, parser_vars>>

\* the for loop has run through output; main returns
Exit ==
    /\ pc = "print"
    /\ Len(Emitted(stdout)) = Len(output)
    /\ pc' = "done"
    /\ UNCHANGED <<input, lex_out, parse_out, expr_out, output, err, stdout, parser_vars>>

Next ==
    \/ ReadOk \/ ReadErr \/ EchoInput
    \/ LexOk \/ LexErr \/ LexPanic
    \/ ParseOk \/ ParseErr
    \/ EmitOk
    \/ PrintLine \/ Exit

Spec == Init /\ [][Next]_vars

(***************************************************************************)
(* Lexer claims.                                                           *)
(***************************************************************************)
Count(seq, P(_)) == Cardinality({k \in 1..Len(seq) : P(seq[k])})
IsNewlineChar(c) == c = "\n"
IsNewlineTok(t) == t.type = "Newline"
IsNumberTok(t) == t.type = "Number"

RECURSIVE SkipClass(_, _, _)
SkipClass(text, i, class) ==
    IF i <= Len(text) /\ text[i] \in class THEN SkipClass(text, i + 1, class) ELSE i

RECURSIVE SkipString(_, _)
\* the position after a string literal's closing quote, or of the newline
\* (or end of text) that cuts it short
SkipString(text, i) ==
    IF i > Len(text) \/ text[i] = "\n" THEN i
    ELSE IF text[i] = "\"" THEN i + 1
    ELSE SkipString(text, i + 1)

RECURSIVE UnitCount(_, _, _)
\* the atomic lexical units in text from position i on, read off the text
\* as a whole: numbers, identifiers/keywords, strings, operators, NUL, and
\* nl for each newline (1 to count newlines as units, 0 not to)
UnitCount(text, i, nl) ==
    IF i > Len(text) THEN 0
    ELSE LET c == text[i] IN
      CASE c = "\n" -> nl + UnitCount(text, i + 1, nl)
        [] c \in {" ", "\t", "\r"} -> UnitCount(text, i + 1, nl)
        [] c \in Digits -> 1 + UnitCount(text, SkipClass(text, i, Digits), nl)
        [] c \in IdentStart -> 1 + UnitCount(text, SkipClass(text, i, IdentChars), nl)
        [] c = "\"" -> 1 + UnitCount(text, SkipString(text, i + 1), nl)
        [] c \in {"=", "<", ">", "!"} /\ i < Len(text) /\ text[i + 1] = "=" ->
             1 + UnitCount(text, i + 2, nl)
        [] OTHER -> 1 + UnitCount(text, i + 1, nl)

\* C6 as stated: for every input that lexes successfully, every textual
\* newline yields a Newline token and the number of tokens equals the number
\* of atomic lexical units, newlines included.
CE_C6_NewlineTokens ==
    pc = "parse" =>
        /\ Count(lex_out, IsNewlineTok) = Count(input, IsNewlineChar)
        /\ Len(lex_out) = UnitCount(input, 1, 1)

\* C6 amended: for every input that lexes successfully, no textual newline
\* yields a token (lines() removes it before the character dispatch), and the
\* number of tokens equals the number of atomic lexical units that are not
\* newlines: numbers, identifiers/keywords, strings, operators and NUL
\* characters; whitespace and newlines contribute nothing.
Thm_C6_TokenCount ==
    pc = "parse" =>
        /\ Count(lex_out, IsNewlineTok) = 0
        /\ Len(lex_out) = UnitCount(input, 1, 0)

\* a text with a newline between two units has been lexed into two tokens
Wit_C6_TokenCount ==
    /\ pc = "parse"
    /\ Len(input) >= 3
    /\ \E k \in 2..(Len(input) - 1) : input[k] = "\n"
    /\ Len(lex_out) = 2

DeclaredChars ==
    Digits \cup IdentStart \cup {" ", "\t", "\r", "\n", "\"", NUL,
                                 "=", "+", "-", "*", "/", "!", "<", ">"}

\* every character is declared and every '!' is directly followed by '='
OnlyDeclared(text) ==
    \A k \in 1..Len(text) :
        /\ text[k] \in DeclaredChars
        /\ text[k] = "!" => (k < Len(text) /\ text[k + 1] = "=")

RECURSIVE DecimalValue(_)
DecimalValue(ds) ==
    IF ds = <<>> THEN 0
    ELSE 10 * DecimalValue(SubSeq(ds, 1, Len(ds) - 1)) + DigitValue(ds[Len(ds)])

\* C7: for any input of declared characters lex never fails; a run of
\* digits, of any length, is one Number token with the run's decimal value.
CE_C7_LexTotal ==
    (pc # "lex" /\ OnlyDeclared(input)) =>
        /\ err = "none"
        /\ (input # <<>> /\ \A k \in 1..Len(input) : input[k] \in Digits)
               => lex_out = <<TNumber(DecimalValue(input))>>

(***************************************************************************)
(* Parser claims.                                                          *)
(***************************************************************************)
IsPrimaryTok(t) == t.type \in {"Number", "Identifier"}
IsExprTok(t) ==
    t.type \in {"Number", "Identifier", "Plus", "Minus", "Asterisk", "Slash"}

RECURSIVE SortedSeq(_)
SortedSeq(S) ==
    IF S = {} THEN <<>>
    ELSE LET m == CHOOSE x \in S : \A y \in S : x <= y
         IN <<m>> \o SortedSeq(S \ {m})

\* seq cut at the positions seps (in increasing order), the separators left out
Pieces(seq, seps) ==
    LET cuts == <<0>> \o seps \o <<Len(seq) + 1>>
    IN [n \in 1..(Len(cuts) - 1) |-> SubSeq(seq, cuts[n] + 1, cuts[n + 1] - 1)]

\* the longest prefix of toks made of expression tokens only
ChainPart(toks) ==
    LET stops == {k \in 1..Len(toks) : ~IsExprTok(toks[k])}
    IN IF stops = {} THEN toks
       ELSE SubSeq(toks, 1, (CHOOSE k \in stops : \A m \in stops : k <= m) - 1)

\* a + or - joins two terms exactly when a primary stands right before it
AddPositions(ch) ==
    SortedSeq({k \in 2..Len(ch) : ch[k].type \in {"Plus", "Minus"} /\ IsPrimaryTok(ch[k - 1])})
MulPositions(seg) ==
    SortedSeq({k \in 1..Len(seg) : seg[k].type \in {"Asterisk", "Slash"}})

UnarySegOk(seg) ==
    \/ Len(seg) = 1 /\ IsPrimaryTok(seg[1])
    \/ Len(seg) = 2 /\ seg[1].type \in {"Plus", "Minus"} /\ IsPrimaryTok(seg[2])
TermSegOk(seg) ==
    LET us == Pieces(seg, MulPositions(seg))
    IN \A n \in 1..Len(us) : UnarySegOk(us[n])
\* ch is a chain t0 op1 t1 ... opN tN of well-formed terms
ChainOk(ch) ==
    LET ts == Pieces(ch, AddPositions(ch))
    IN ch # <<>> /\ \A n \in 1..Len(ts) : TermSegOk(ts[n])

PrimaryOfTok(t) == IF t.type = "Number" THEN PNumber(t.value) ELSE PIdent(t.name)
UnaryOfSeg(seg) ==
    IF Len(seg) = 2 /\ seg[1].type = "Minus"
        THEN UMinus(PrimaryOfTok(seg[2]))
        ELSE UPlus(PrimaryOfTok(seg[Len(seg)]))
\* the initial unary with one tail entry per * or /, in source order
TermOfSeg(seg) ==
    LET ps == MulPositions(seg)
        us == Pieces(seg, ps)
    IN IF ps = <<>> THEN TermSingleUnary(UnaryOfSeg(us[1]))
       ELSE TermWithTail(UnaryOfSeg(us[1]),
                [n \in 1..Len(ps) |->
                    IF seg[ps[n]].type = "Asterisk"
                        THEN TailMultiply(UnaryOfSeg(us[n + 1]))
                        ELSE TailDivide(UnaryOfSeg(us[n + 1]))])
\* the initial term with one tail entry per joining + or -, in source order
ExprOfChain(ch) ==
    LET ps == AddPositions(ch)
        ts == Pieces(ch, ps)
    IN IF ps = <<>> THEN ExprSingleTerm(TermOfSeg(ts[1]))
       ELSE ExprWithTail(TermOfSeg(ts[1]),
                [n \in 1..Len(ps) |->
                    IF ch[ps[n]].type = "Plus"
                        THEN TailAdd(TermOfSeg(ts[n + 1]))
                        ELSE TailSubtract(TermOfSeg(ts[n + 1]))])

\* C5: parse_expression (and parse_term one level down) is left-associative
\* and flat: for a chain t0 op1 t1 ... opN tN the result is the initial term
\* t0 with a tail of exactly N entries in source order, entry i being
\* Add(ti) or Subtract(ti) according to opi (likewise Multiply/Divide inside
\* each term), and the cursor is left right after the chain.
Thm_C5_FlatLeftAssoc ==
    (pc = "returned" /\ ChainOk(ChainPart(lex_out))) =>
        /\ expr_out.ok
        /\ expr_out.val = ExprOfChain(ChainPart(lex_out))
        /\ expr_out.idx = Len(ChainPart(lex_out)) + 1
        /\ expr_out.val.tag = "WithTail" =>
               Len(expr_out.val.tail) = Len(AddPositions(ChainPart(lex_out)))

\* a - b - c has been parsed into a tail of two Subtract entries
Wit_C5_FlatLeftAssoc ==
    /\ pc = "returned"
    /\ expr_out.ok
    /\ Len(lex_out) = 5
    /\ lex_out[2].type = "Minus" /\ lex_out[4].type = "Minus"
    /\ expr_out.val.tag = "WithTail"
    /\ Len(expr_out.val.tail) = 2
    /\ expr_out.val.tail[1].tag = "Subtract" /\ expr_out.val.tail[2].tag = "Subtract"

CountType(toks, type) == Cardinality({k \in 1..Len(toks) : toks[k].type = type})

\* an if (while) of toks has no endif (endwhile) of its own left in toks
Unclosed(toks) ==
    \/ CountType(toks, "If") > CountType(toks, "Endif")
    \/ CountType(toks, "While") > CountType(toks, "Endwhile")

\* C2: when an if (or while) is opened and the tokens end before its endif
\* (or endwhile), parse returns an error, never Ok with a truncated body.
CE_C2_MissingEndIsError ==
    (pc # "parse" /\ Unclosed(lex_out)) => pc = "aborted"

Rest(toks, i) == SubSeq(toks, i, Len(toks))

\* C3: a top-level `let ident = expression` followed by further statements
\* yields Let{ident, expression}, the expression parsed from the tokens right
\* after '=', and the next statement is parsed from the first token after it.
CE_C3_TopLevelLet ==
    (/\ pc # "parse"
     /\ Len(lex_out) >= 5
     /\ lex_out[1].type = "Let"
     /\ lex_out[2].type = "Identifier"
     /\ lex_out[3].type = "Equal"
     /\ parse_expression(lex_out, 4).ok
     /\ parse_expression(lex_out, 4).idx <= Len(lex_out)
     /\ parse(Rest(lex_out, parse_expression(lex_out, 4).idx)).ok)
    => /\ pc = "emit"
       /\ parse_out =
            <<SLet(lex_out[2].name, parse_expression(lex_out, 4).val)>>
              \o parse(Rest(lex_out, parse_expression(lex_out, 4).idx)).val

\* C4: a top-level print whose next token is not a string yields
\* PrintExpression(e), e the full expression that begins right after print;
\* when the next token is a string it yields PrintString of it and consumes
\* exactly that token.
CE_C4_TopLevelPrint ==
    (/\ pc # "parse"
     /\ Len(lex_out) >= 2
     /\ lex_out[1].type = "Print")
    => IF lex_out[2].type = "String"
           THEN parse(Rest(lex_out, 3)).ok =>
                  /\ pc = "emit"
                  /\ parse_out = <<SPrintString(lex_out[2].value)>>
                                   \o parse(Rest(lex_out, 3)).val
           ELSE (/\ parse_expression(lex_out, 2).ok
                 /\ parse(Rest(lex_out, parse_expression(lex_out, 2).idx)).ok)
                => /\ pc = "emit"
                   /\ parse_out =
                        <<SPrintExpression(parse_expression(lex_out, 2).val)>>
                          \o parse(Rest(lex_out, parse_expression(lex_out, 2).idx)).val

(***************************************************************************)
(* Emitter claims.                                                         *)
(***************************************************************************)
RECURSIVE NamesOf(_, _, _)
\* the names carried by the statements with a tag in tags, at top level and
\* inside If/While bodies (field is "name" or "ident")
NamesOf(statements, tags, field) ==
    IF statements = <<>> THEN {}
    ELSE LET st == Head(statements)
             here == IF st.tag \in tags THEN {st[field]} ELSE {}
             inner == IF st.tag \in {"If", "While"}
                          THEN NamesOf(st.body, tags, field) ELSE {}
         IN here \cup inner \cup NamesOf(Tail(statements), tags, field)

GotoNames(statements) == NamesOf(statements, {"Goto"}, "name")
LabelNames(statements) == NamesOf(statements, {"Label"}, "name")
TargetIdents(statements) == NamesOf(statements, {"Let", "Input"}, "ident")

\* C1: if some Goto(name), at top level or in a body, has no Label(name)
\* anywhere in the program, emit returns an error and produces no output
\* line; a Goto whose Label comes later in the program is accepted.
CE_C1_DanglingGoto ==
    pc # "emit" =>
        IF GotoNames(parse_out) \subseteq LabelNames(parse_out)
            THEN pc = "print"
            ELSE pc = "aborted" /\ err = "emit_err" /\ output = <<>>

Preamble == <<"#include <stdio.h>", "int main(void){\n">>
Epilogue == <<"return 0;", "}">>

\* C8: a program of PrintString statements s1..sn is emitted as exactly n+4
\* lines: the include line, the main line with its newline, one
\* printf("<si>\n"); per statement in program order with si unmodified, then
\* return 0; and the closing brace.
Thm_C8_PrintStringLines ==
    (pc = "print" /\ \A k \in 1..Len(parse_out) : parse_out[k].tag = "PrintString") =>
        /\ Len(output) = Len(parse_out) + 4
        /\ output[1] = "#include <stdio.h>"
        /\ output[2] = "int main(void){\n"
        /\ \A k \in 1..Len(parse_out) :
               output[2 + k] = "printf(\"" \o parse_out[k].text \o "\\n\");"
        /\ output[Len(parse_out) + 3] = "return 0;"
        /\ output[Len(parse_out) + 4] = "}"

\* two PrintString statements, one with an embedded quote, have been emitted
Wit_C8_PrintStringLines ==
    /\ pc = "print"
    /\ Len(parse_out) = 2
    /\ parse_out[1] = SPrintString("say \"hi\"")
    /\ parse_out[2] = SPrintString("waddup")
    /\ Len(output) = 6

\* the texts a declaration of the integer variable v may have
DeclarationLines(v) == {"int " \o v \o ";", "int " \o v \o " = 0;"}
AllDeclarationLines(statements) ==
    UNION {DeclarationLines(v) : v \in TargetIdents(statements)}

\* C9: after the preamble and before the first lowered statement line the
\* output holds a declaration for each distinct identifier that is a Let or
\* Input target anywhere in the program, each declared exactly once.
CE_C9_Declarations ==
    pc = "print" =>
        LET n == Cardinality(TargetIdents(parse_out)) IN
        /\ Len(output) >= 2 + n
        /\ \A v \in TargetIdents(parse_out) :
               Cardinality({k \in 1..Len(output) : output[k] \in DeclarationLines(v)}) = 1
        /\ \A k \in 1..Len(output) :
               output[k] \in AllDeclarationLines(parse_out) => (k > 2 /\ k <= 2 + n)

\* the infix text of an expression: signs as written, one pair of
\* parentheses around every node with a tail
UnaryText(u) ==
    LET text == IF u.primary.tag = "Ident" THEN u.primary.name
                                           ELSE FormatI32(u.primary.value)
    IN IF u.tag = "Minus" THEN "-" \o text ELSE text

RECURSIVE TermTailText(_, _)
TermTailText(tl, k) ==
    IF k > Len(tl) THEN ""
    ELSE (IF tl[k].tag = "Multiply" THEN " * " ELSE " / ")
           \o UnaryText(tl[k].unary) \o TermTailText(tl, k + 1)

TermText(t) ==
    IF t.tag = "SingleUnary" THEN UnaryText(t.unary)
    ELSE "(" \o UnaryText(t.unary) \o TermTailText(t.tail, 1) \o ")"

RECURSIVE ExprTailText(_, _)
ExprTailText(tl, k) ==
    IF k > Len(tl) THEN ""
    ELSE (IF tl[k].tag = "Add" THEN " + " ELSE " - ")
           \o TermText(tl[k].term) \o ExprTailText(tl, k + 1)

ExpressionText(e) ==
    IF e.tag = "SingleTerm" THEN TermText(e.term)
    ELSE "(" \o TermText(e.term) \o ExprTailText(e.tail, 1) \o ")"

\* C10: PrintExpression(e), whatever the shape of e, is emitted as exactly
\* one printf line with the %d specifier and the lowered text of e as its
\* argument; no shape yields zero lines or a placeholder.
CE_C10_PrintExpressionLine ==
    (pc = "print" /\ \A k \in 1..Len(parse_out) : parse_out[k].tag = "PrintExpression") =>
        /\ Len(output) = Len(parse_out) + 4
        /\ \A k \in 1..Len(parse_out) :
               output[2 + k] =
                   "printf(\"%d\\n\", " \o ExpressionText(parse_out[k].expression) \o ");"

\* the C operator of a Comparison variant
ComparatorText(tag) ==
    CASE tag = "Equal" -> "=="
      [] tag = "NotEqual" -> "!="
      [] tag = "GreaterThan" -> ">"
      [] tag = "GreaterThanEqual" -> ">="
      [] tag = "LessThan" -> "<"
      [] tag = "LessThanEqual" -> "<="

ComparisonText(c) ==
    ExpressionText(c.left) \o " " \o ComparatorText(c.tag) \o " " \o ExpressionText(c.right)

\* the texts the line that opens the block of an If or a While may have
OpeningLines(st) ==
    LET kw == IF st.tag = "If" THEN "if" ELSE "while"
        c == ComparisonText(st.comparison)
    IN {kw \o "(" \o c \o "){", kw \o " (" \o c \o ") {",
        kw \o "(" \o c \o ") {", kw \o " (" \o c \o "){"}

IsBlock(st) == st.tag \in {"If", "While"}

RECURSIVE LoweredCount(_, _)
\* the number of lines the statements from position k on are lowered to when
\* an If/While is an opening line, its body's lines and a closing line
LoweredCount(statements, k) ==
    IF k > Len(statements) THEN 0
    ELSE (IF IsBlock(statements[k])
              THEN 2 + LoweredCount(statements[k].body, 1)
              ELSE Len(EmitStatement(statements[k])))
           + LoweredCount(statements, k + 1)

\* the output position of the first line of statement k of statements, the
\* first line of statement 1 being at position first
LineOf(statements, k, first) == first + LoweredCount(SubSeq(statements, 1, k - 1), 1)

\* C11: every If{comparison, body} and While{comparison, body} is emitted as
\* a line that opens a conditional/loop on the lowered comparison, then the
\* lowered lines of each body statement in body order, then a closing line;
\* every statement nested in a body contributes its lines to the output.
CE_C11_BlockLowering ==
    pc = "print" =>
        /\ Len(output) = 4 + LoweredCount(parse_out, 1)
        /\ \A k \in 1..Len(parse_out) :
               IsBlock(parse_out[k]) =>
                   LET st == parse_out[k]
                       open == LineOf(parse_out, k, 3)
                       close == open + 1 + LoweredCount(st.body, 1)
                   IN /\ output[open] \in OpeningLines(st)
                      /\ output[close] = "}"
                      /\ \A n \in 1..Len(st.body) :
                             ~IsBlock(st.body[n]) =>
                                 LET at == LineOf(st.body, n, open + 1)
                                     ls == EmitStatement(st.body[n])
                                 IN SubSeq(output, at, at + Len(ls) - 1) = ls

(***************************************************************************)
(* Claims about one compile run.                                           *)
(***************************************************************************)
IsPrefix(a, b) == Len(a) <= Len(b) /\ a = SubSeq(b, 1, Len(a))

LexDone == pc \in {"parse", "emit", "print", "done"} \/ err = "parse_err"
ParseDone == pc \in {"emit", "print", "done"}
EmitDone == pc \in {"print", "done"}

\* what each position of the run stands on: the results of the stages
\* before it, complete and successful, and nothing of the stages after it
StagesInOrder ==
    /\ IF LexDone THEN lex(input).status = "ok" /\ lex_out = lex(input).tokens
                  ELSE lex_out = <<>>
    /\ IF ParseDone THEN parse(lex_out).ok /\ parse_out = parse(lex_out).val
                    ELSE parse_out = <<>>
    /\ IF EmitDone THEN output = emit_program(parse_out).val
                   ELSE output = <<>> /\ Emitted(stdout) = <<>>
    /\ IsPrefix(Emitted(stdout), output)
    /\ pc = "done" => Emitted(stdout) = output
    /\ pc = "aborted" <=> err # "none"

\* the moves of the run from one position to the next
StageSteps ==
    {<<"read", "echo">>, <<"echo", "lex">>, <<"lex", "parse">>,
     <<"parse", "emit">>, <<"emit", "print">>, <<"print", "done">>,
     <<"read", "aborted">>, <<"lex", "aborted">>, <<"parse", "aborted">>}

\* one step: a move along the order of the stages, nothing taken back, and a
\* line printed only out of the complete output
StepInOrder ==
    /\ pc' # pc => <<pc, pc'>> \in StageSteps
    /\ IsPrefix(stdout, stdout')
    /\ Emitted(stdout') # Emitted(stdout) => (pc = "print" /\ output' = output)
    /\ output' # output => pc = "emit"
    /\ parse_out' # parse_out => pc = "parse"
    /\ lex_out' # lex_out => pc = "lex"

\* C12: in one compile run the stages run strictly in the order lex, parse,
\* emit, each only after the one before it has completed successfully; when
\* lex or parse fails no later stage runs and no emitted line is ever
\* output; emitted lines are output only after emit has returned the
\* complete line sequence.
Thm_C12_StageOrder == []StagesInOrder /\ [][StepInOrder]_vars

\* a run has printed the whole output of a program of at least one statement
Wit_C12_StageOrder ==
    /\ pc = "done"
    /\ Len(parse_out) >= 1
    /\ Len(output) = Len(Emitted(stdout))
    /\ Len(output) >= 5

(***************************************************************************)
(* Claims about nested blocks and the two statement dispatches.            *)
(***************************************************************************)
\* the keyword that follows the comparison and the one that closes the body
OpenerOf(type) == IF type = "If" THEN "Then" ELSE "Repeat"
CloserOf(type) == IF type = "If" THEN "Endif" ELSE "Endwhile"

\* toks from position i on begins `if comparison then` (`while comparison
\* repeat`); idx is the position right after the then (repeat)
BlockHeader(toks, i) ==
    LET c == parse_comparison(toks, i + 1) IN
    IF /\ Peek(toks, i).type \in {"If", "While"}
       /\ c.ok
       /\ Peek(toks, c.idx).type = OpenerOf(Peek(toks, i).type)
        THEN [ok |-> TRUE, type |-> toks[i].type, comparison |-> c.val, idx |-> c.idx + 1]
        ELSE [ok |-> FALSE, idx |-> i]

SBlock(type, c, b) == IF type = "If" THEN SIf(c, b) ELSE SWhile(c, b)

\* C13: an `if comparison then ... endif` (`while comparison repeat ...
\* endwhile`) written inside the body of another if/while parses into an
\* If/While node nested in the enclosing node's body: the interior then
\* (repeat) is skipped and each body ends at its own closing keyword.
CE_C13_NestedBlocks ==
    LET outer == BlockHeader(lex_out, 1)
        inner == BlockHeader(lex_out, outer.idx)
    IN (/\ pc # "parse"
        /\ outer.ok
        /\ inner.ok
        /\ Len(lex_out) = inner.idx + 1
        /\ lex_out[inner.idx].type = CloserOf(inner.type)
        /\ lex_out[inner.idx + 1].type = CloserOf(outer.type))
       => /\ pc = "emit"
          /\ parse_out = <<SBlock(outer.type, outer.comparison,
                                  <<SBlock(inner.type, inner.comparison, <<>>)>>)>>

\* toks is one whole expression: a chain of well-formed terms and no more
WholeExpression(toks) == ChainPart(toks) = toks /\ ChainOk(toks)

\* toks is the token sequence of one print, label, goto, let or input
\* statement as the grammar writes it
OneSimpleStatement(toks) ==
    /\ Len(toks) >= 2
    /\ CASE toks[1].type = "Print" ->
              \/ Len(toks) = 2 /\ toks[2].type = "String"
              \/ WholeExpression(Rest(toks, 2))
         [] toks[1].type \in {"Label", "Goto", "Input"} ->
              Len(toks) = 2 /\ toks[2].type = "Identifier"
         [] toks[1].type = "Let" ->
              /\ Len(toks) >= 4
              /\ toks[2].type = "Identifier"
              /\ toks[3].type = "Equal"
              /\ WholeExpression(Rest(toks, 4))
         [] OTHER -> FALSE

\* C14: for every token sequence forming one print, label, goto, let or
\* input statement, the Statement parse builds at top level equals the one
\* parse_statement builds inside a body, and both consume exactly the
\* tokens of the statement.
CE_C14_SameDispatch ==
    (pc # "parse" /\ OneSimpleStatement(lex_out)) =>
        /\ pc = "emit"
        /\ parse_statement(lex_out, 1).ok
        /\ parse_out = <<parse_statement(lex_out, 1).val>>
        /\ parse_statement(lex_out, 1).idx = Len(lex_out) + 1
        /\ ParseTopStatement(lex_out, 1).idx = Len(lex_out) + 1

\* toks is `if comparison` (`while comparison`) with something other than
\* then (repeat) right after the comparison, and ends with endif (endwhile)
MissingOpener(toks) ==
    LET c == parse_comparison(toks, 2) IN
    /\ Peek(toks, 1).type \in {"If", "While"}
    /\ c.ok
    /\ c.idx <= Len(toks)
    /\ toks[c.idx].type # OpenerOf(toks[1].type)
    /\ toks[Len(toks)].type = CloserOf(toks[1].type)

\* C15: the if production requires then right after its comparison and the
\* while production requires repeat: without it (nothing, or the other
\* construct's keyword, in its place) parse returns an error.
CE_C15_OpenerRequired ==
    (pc # "parse" /\ MissingOpener(lex_out)) => pc = "aborted"

(***************************************************************************)
(* Claims about the steps of parse.                                        *)
(***************************************************************************)
\* the cursor stays within the token sequence
CursorInBounds ==
    /\ 0 <= Position(token_iterator)
    /\ Position(token_iterator) <= token_iterator.index
    /\ token_iterator.index <= Len(lex_out)

\* the heads of the loops: the top-level dispatch of parse, the if/while
\* body loops of parse and parse_statement, the tail loops of
\* parse_expression and parse_term
AtBodyHead(f) ==
    f.fn \in {"parse", "parse_statement"} /\ f.at \in {"if_body", "while_body"}
AtLoopHead(f) ==
    \/ f.fn = "parse" /\ f.at = "loop"
    \/ f.fn \in {"parse_expression", "parse_term"} /\ f.at = "tail"

\* control is back at the head of a loop only with the cursor further on
\* than at the pass before
LoopProgress ==
    (pc = "parsing" /\ stack # <<>>) =>
        LET f == Head(stack) IN
        /\ (AtBodyHead(f) /\ f.body_mark >= 0) =>
               Position(token_iterator) > f.body_mark
        /\ (AtLoopHead(f) /\ f.mark >= 0) => Position(token_iterator) > f.mark

\* when the steps have ended they have ended as parse does
EndsAsParse ==
    /\ pc = "emit" => /\ parse(lex_out).ok
                      /\ Position(token_iterator) + 1 = parse(lex_out).idx
    /\ pc = "aborted" => ~parse(lex_out).ok

\* one step of the cursor: never back, peek leaves the position where it is,
\* next moves it on by one token while one is left
CursorStep ==
    /\ token_iterator'.index >= token_iterator.index
    /\ Position(token_iterator') >= Position(token_iterator)
    /\ steps' \in {steps, steps + 1}
    /\ steps' = steps => token_iterator' = token_iterator
    /\ (steps' # steps /\ cursor_op' = "peek") =>
           Position(token_iterator') = Position(token_iterator)
    /\ (steps' # steps /\ cursor_op' = "next") =>
           Position(token_iterator') =
               IF Position(token_iterator) < Len(lex_out)
                   THEN Position(token_iterator) + 1
                   ELSE Position(token_iterator)
    /\ (steps' # steps /\ cursor_op' = "none") => token_iterator' = token_iterator

ParseEnded == pc \in {"emit", "aborted"}

\* C16: parse terminates on every finite token sequence: the cursor never
\* moves back and never passes the end of the tokens, peek never advances
\* it, every pass through the head of a loop of parse, parse_statement,
\* parse_expression and parse_term finds the cursor further on than the
\* pass before (or the loop is left, or an Err is returned), and parse ends
\* in Ok or Err within a number of steps bounded by the token count.
Thm_C16_ParseTerminates ==
    /\ [](CursorInBounds /\ LoopProgress /\ EndsAsParse
            /\ steps <= 10 * (Len(lex_out) + 1))
    /\ [][CursorStep]_vars
    /\ <>ParseEnded

\* parse has returned Ok for a program with a statement in an if body, after
\* more steps than there are tokens and with every token taken
Wit_C16_ParseTerminates ==
    /\ pc = "emit"
    /\ Len(parse(lex_out).val) >= 1
    /\ parse(lex_out).val[1].tag = "If"
    /\ Len(parse(lex_out).val[1].body) >= 1
    /\ steps > Len(lex_out)
    /\ Position(token_iterator) = Len(lex_out)

====
